---- MODULE Spec2Model ----
(***************************************************************************)
(* ObjectStreamOut (Jolt/ObjectStream/ObjectStreamOut.cpp): the reflective *)
(* object-graph serializer.  One Write call assigns identifiers, walks the *)
(* object graph breadth-first through the object queue, flushes the class  *)
(* queue before every object record and drives the format writer.          *)
(*                                                                         *)
(* The state is the serializer's members, the log of the calls made to the *)
(* format writer, the writer's fault flag and the call stack of the Write  *)
(* in progress.  Every action is one block of consecutive source lines of  *)
(* one function; the writer may fault at any of the calls a block makes.   *)
(*                                                                         *)
(* hash_combine (Jolt/Core/HashCombine.h) is modelled next to it as a      *)
(* machine of its own (SpecHash) on 64-bit words.                          *)
(***************************************************************************)
EXTENDS Integers, Sequences, FiniteSets, TLC

(***************************************************************************)
(* Bounds of the model.                                                    *)
(***************************************************************************)
\* Number of object instances the caller's heap holds.
NumObjects == 3
\* Number of Write calls the caller makes on one serializer in SpecReuse.
MaxWrites == 2
\* Number of values a hash_combine call is given at most.
MaxValues == 3

(***************************************************************************)
(* Program constants.                                                      *)
(***************************************************************************)
\* ObjectStream::sNullIdentifier, the identifier written for nullptr.
sNullIdentifier == 0
\* The width of std::size_t in bits.
SizeBits == 64
\* nullptr as a pointer value.
NullPtr == 0

(***************************************************************************)
(* Type metadata (RTTI) supplied by the type registry.                     *)
(***************************************************************************)
\* The primitive types declared by ObjectStreamTypes.h that the model uses.
Primitives == {"int", "float"}

\* The reflected classes of the modelled program.
Classes == {"Pair", "Node"}

\* "no member type": GetMemberPrimitiveType may return nullptr.
NullRTTI == "nullptr"

\* The ordered attribute list of each class.  kind "other" is an RTTIAttribute
\* that is not a SerializableAttribute (DynamicCast gives nullptr).
Attributes(inRTTI) ==
    IF inRTTI = "Pair" THEN
        << [name |-> "version", kind |-> "other",     member |-> NullRTTI],
           [name |-> "id",      kind |-> "primitive", member |-> "int"],
           [name |-> "first",   kind |-> "pointer",   member |-> "Node"],
           [name |-> "second",  kind |-> "pointer",   member |-> "Node"] >>
    ELSE IF inRTTI = "Node" THEN
        << [name |-> "value",   kind |-> "primitive", member |-> "float"],
           [name |-> "next",    kind |-> "pointer",   member |-> "Node"] >>
    ELSE << >>

GetAttributeCount(inRTTI) == Len(Attributes(inRTTI))

GetAttribute(inRTTI, attr_index) == Attributes(inRTTI)[attr_index + 1]

\* DynamicCast<SerializableAttribute, RTTIAttribute>(attr) # nullptr
IsSerializableAttribute(attr) == attr.kind # "other"

GetMemberPrimitiveType(attr) == attr.member

\* The tag attr->WriteDataType(*this) hands to the writer.
AttributeDataType(attr) ==
    IF attr.kind = "pointer" THEN "Pointer" ELSE "T_" \o attr.member

(***************************************************************************)
(* The caller's objects.                                                   *)
(***************************************************************************)
Objects == 1 .. NumObjects

\* The dynamic type of each instance: one Pair, the others Nodes.
TypeOf(inObject) == IF inObject = 1 THEN "Pair" ELSE "Node"

PointerNames(inRTTI) ==
    { Attributes(inRTTI)[i].name :
        i \in { j \in 1 .. Len(Attributes(inRTTI)) :
                  Attributes(inRTTI)[j].kind = "pointer" } }

\* The values a pointer attribute whose member type is inRTTI can hold.
PointerValues(inRTTI) ==
    { o \in Objects : TypeOf(o) = inRTTI } \cup {NullPtr}

\* The well-typed pointer fields of one instance.
FieldsOf(inObject) ==
    { f \in [PointerNames(TypeOf(inObject)) -> Objects \cup {NullPtr}] :
        \A i \in 1 .. Len(Attributes(TypeOf(inObject))) :
            LET attr == Attributes(TypeOf(inObject))[i] IN
            attr.kind = "pointer" => f[attr.name] \in PointerValues(attr.member) }

\* The heaps of the first n objects: each object with well-typed fields.
RECURSIVE HeapsOf(_)
HeapsOf(n) ==
    IF n = 0 THEN { << >> }
    ELSE { Append(h, f) : h \in HeapsOf(n - 1), f \in FieldsOf(n) }

Heaps == HeapsOf(NumObjects)

\* The objects an instance points to.
Pointees(h, inObject) ==
    { h[inObject][a] : a \in DOMAIN h[inObject] } \ {NullPtr}

\* The objects reachable from the objects of S: the object closure.
RECURSIVE ReachableFrom(_, _)
ReachableFrom(h, S) ==
    LET T == S \cup UNION { Pointees(h, o) : o \in S }
    IN IF T = S THEN S ELSE ReachableFrom(h, T)

\* The plans of the caller: the roots of n successive Write calls.
Plans(n) == [1 .. n -> Objects]

\* Objects that no planned Write can reach are never read: they hold null
\* pointers, so that every heap stands for all heaps that differ from it only
\* in unread fields.
UnreadIsNull(h, plan) ==
    \A o \in Objects \ ReachableFrom(h, { plan[k] : k \in 1 .. Len(plan) }) :
        Pointees(h, o) = {}

VARIABLES
    heap,            \* the pointer fields of the caller's objects
    mNextIdentifier, \* next identifier to hand out
    mIdentifierMap,  \* object |-> ObjectInfo
    mClassSet,       \* types known to the stream
    mObjectQueue,    \* objects waiting to be written
    mClassQueue,     \* classes waiting to be declared
    mStream,         \* the calls made to the format writer, in order
    mStreamFail,     \* mStream.fail()
    stack,           \* call stack of the Write in progress, top first
    result,          \* what the last Write returned
    root,            \* the object the last Write was called with
    calls,           \* the roots of the Write calls the caller will still make
    ioSeed,          \* hash_combine: the seed the caller passed by reference
    inValues,        \* hash_combine: the values still to be combined
    hashPc,          \* hash_combine: "idle", "combine" or "done"
    hashArgs         \* hash_combine: what the caller called it with

hashVars == << ioSeed, inValues, hashPc, hashArgs >>

vars == << heap, mNextIdentifier, mIdentifierMap, mClassSet, mObjectQueue,
           mClassQueue, mStream, mStreamFail, stack, result, root, calls,
           hashVars >>


(***************************************************************************)
(* Jolt/Core/HashCombine.h.  A std::size_t is a function from bit          *)
(* positions (0 the least significant) to bits, so that sums and shifts    *)
(* wrap at the width of the type.                                          *)
(***************************************************************************)
Bits == 0 .. SizeBits - 1

\* The word with the given hexadecimal digits, most significant first.
Hex(digits) ==
    [i \in Bits |->
        LET k == Len(digits) - (i \div 4)
        IN IF k >= 1 THEN (digits[k] \div (2 ^ (i % 4))) % 2 ELSE 0]

Zero == Hex(<< >>)
One == Hex(<< 1 >>)
AllOnes == [i \in Bits |-> 1]

\* a << n and a >> n on std::size_t
ShiftLeft(a, n) == [i \in Bits |-> IF i >= n THEN a[i - n] ELSE 0]
ShiftRight(a, n) == [i \in Bits |-> IF i + n < SizeBits THEN a[i + n] ELSE 0]

\* a ^ b
Xor(a, b) == [i \in Bits |-> (a[i] + b[i]) % 2]

\* The bits of a + b from position i on, given the carry into position i; the
\* carry out of the last position is dropped.
RECURSIVE SumBits(_, _, _, _)
SumBits(a, b, i, carry) ==
    IF i = SizeBits THEN << >>
    ELSE << (a[i] + b[i] + carry) % 2 >>
           \o SumBits(a, b, i + 1, (a[i] + b[i] + carry) \div 2)

\* a + b on std::size_t
Add(a, b) ==
    LET sum == SumBits(a, b, 0, 0) IN [i \in Bits |-> sum[i + 1]]

\* The constant of line 29, 0x9e3779b9.
HashConstant == Hex(<< 9, 14, 3, 7, 7, 9, 11, 9 >>)

\* std::hash<std::size_t>: the value itself.
Hasher(inValue) == inValue

\* Variant of the step of line 29 with the two shift amounts exchanged.
HashStep_ShiftsSwapped(seed, inValue) ==
    Xor(seed, Add(Add(Add(Hasher(inValue), HashConstant), ShiftLeft(seed, 2)),
                  ShiftRight(seed, 6)))

\* Line 29: ioSeed ^= hasher(inValue) + 0x9e3779b9 + (ioSeed << 6) + (ioSeed >> 2)
HashStep(seed, inValue) ==
    Xor(seed, Add(Add(Add(Hasher(inValue), HashConstant), ShiftLeft(seed, 6)),
                  ShiftRight(seed, 2)))

\* The seeds and values hash_combine is called with.
Seeds == {Zero, One, AllOnes}
HashValues == {Zero, One, AllOnes, HashConstant}
ValueLists == UNION { [1 .. n -> HashValues] : n \in 0 .. MaxValues }

\* No hash is being computed.
HashIdle ==
    /\ ioSeed = Zero
    /\ inValues = << >>
    /\ hashPc = "idle"
    /\ hashArgs = [seed |-> Zero, values |-> << >>, struct |-> FALSE]

(***************************************************************************)
(* The format writer.  Every call is logged; ok tells whether the call    *)
(* reached the destination: the stream was good and the call itself did    *)
(* not fail (WriterCalls).  obj is bookkeeping the writer does not see:    *)
(* the instance an identifier was written for (NullPtr for every other     *)
(* call and for a null reference).                                         *)
(***************************************************************************)
Call(op, s, n, obj) ==
    [op |-> op, s |-> s, n |-> n, obj |-> obj, ok |-> ~mStreamFail]

HintNextItem == Call("HintNextItem", "", 0, NullPtr)
HintIndentUp == Call("HintIndentUp", "", 0, NullPtr)
HintIndentDown == Call("HintIndentDown", "", 0, NullPtr)
WriteDataType(inType) == Call("WriteDataType", inType, 0, NullPtr)
WriteName(inName) == Call("WriteName", inName, 0, NullPtr)
WriteCount(inCount) == Call("WriteCount", "", inCount, NullPtr)
WriteIdentifier(inIdentifier, obj) == Call("WriteIdentifier", "", inIdentifier, obj)
WritePrimitiveData(inType) == Call("WritePrimitiveData", inType, 0, NullPtr)

\* The running function makes the calls of a block on the writer, in order.
\* Each call can put the stream into the fault state, where it stays: fault
\* is the number of the call of the block that fails (0 for none; none can
\* fail anew once the stream has faulted).  The calls before it reach the
\* destination, the failing call and those after it do not.
WriterCalls(block) ==
    \E fault \in 0 .. Len(block) :
        /\ mStreamFail => fault = 0
        /\ mStream' = mStream \o
               [k \in 1 .. Len(block) |->
                   [block[k] EXCEPT !.ok = ~mStreamFail /\ (fault = 0 \/ k < fault)]]
        /\ mStreamFail' = (mStreamFail \/ fault # 0)

\* What reached the destination.
Written == SelectSeq(mStream, LAMBDA c : c.ok)

(***************************************************************************)
(* Containers.                                                             *)
(***************************************************************************)
ObjectInfo(inIdentifier, inRTTI) ==
    [mIdentifier |-> inIdentifier, mRTTI |-> inRTTI]

\* std::map::insert: an existing key keeps its value.
MapInsert(map, key, value) ==
    IF key \in DOMAIN map THEN map ELSE (key :> value) @@ map

\* Variant of QueuePush that puts the new element at the front (a stack).
QueuePush_Front(queue, x) == << x >> \o queue

\* std::queue::push, front, pop
QueuePush(queue, x) == Append(queue, x)
QueueFront(queue) == Head(queue)
QueuePop(queue) == Tail(queue)

\* Variant of QueueRTTI without the class set lookup.
QueueRTTI_NoSetCheck(classSet, classQueue, inRTTI) ==
    [mClassSet |-> classSet \cup {inRTTI},
     mClassQueue |-> QueuePush(classQueue, inRTTI)]

\* ObjectStreamOut::QueueRTTI: the class set and class queue after the call.
QueueRTTI(classSet, classQueue, inRTTI) ==
    IF inRTTI \notin classSet
    THEN [mClassSet |-> classSet \cup {inRTTI},
          mClassQueue |-> QueuePush(classQueue, inRTTI)]
    ELSE [mClassSet |-> classSet, mClassQueue |-> classQueue]

(***************************************************************************)
(* The call stack.                                                         *)
(***************************************************************************)
Frame(fn, pc, inObject, inRTTI) ==
    [fn |-> fn, pc |-> pc, inObject |-> inObject, inRTTI |-> inRTTI,
     attr_index |-> 0]

Idle == stack = << >>
Top == Head(stack)
At(fn, pc) == ~Idle /\ Top.fn = fn /\ Top.pc = pc
Goto(pc) == << [Top EXCEPT !.pc = pc] >> \o Tail(stack)
CallFrom(pc, frame) == << frame >> \o Goto(pc)
Return == Tail(stack)

(***************************************************************************)
(* Initial state: a freshly constructed serializer on a good stream.       *)
(***************************************************************************)
\* Variant of the constructor that starts the counter at the null identifier.
Constructed_FromNull ==
    /\ mNextIdentifier = sNullIdentifier
    /\ mIdentifierMap = << >>
    /\ mClassSet = Primitives
    /\ mObjectQueue = << >>
    /\ mClassQueue = << >>
    /\ mStream = << >>
    /\ mStreamFail = FALSE
    /\ stack = << >>
    /\ result = "none"
    /\ root = NullPtr

\* ObjectStreamOut::ObjectStreamOut
Constructed ==
    /\ mNextIdentifier = sNullIdentifier + 1
    /\ mIdentifierMap = << >>
    /\ mClassSet = Primitives
    /\ mObjectQueue = << >>
    /\ mClassQueue = << >>
    /\ mStream = << >>
    /\ mStreamFail = FALSE
    /\ stack = << >>
    /\ result = "none"
    /\ root = NullPtr

Init ==
    /\ calls \in Plans(1)
    /\ heap \in { h \in Heaps : UnreadIsNull(h, calls) }
    /\ Constructed
    /\ HashIdle

(***************************************************************************)
(* ObjectStreamOut::Write                                                  *)
(***************************************************************************)
\* Lines 34-38: register the root and call WriteObject on it.
Write_Begin(inObject, inRTTI) ==
    /\ Idle
    /\ calls # << >>
    /\ calls' = Tail(calls)
    /\ mIdentifierMap' =
           MapInsert(mIdentifierMap, inObject, ObjectInfo(mNextIdentifier, inRTTI))
    /\ mNextIdentifier' = mNextIdentifier + 1
    /\ stack' = << Frame("WriteObject", "find", inObject, inRTTI),
                   Frame("Write", "loop", inObject, inRTTI) >>
    /\ result' = "running"
    /\ root' = inObject
    /\ UNCHANGED << heap, mClassSet, mObjectQueue, mClassQueue, mStream, mStreamFail,
                    hashVars >>

\* Variant of the loop test that does not look at the stream's fault state.
Write_Loop_IgnoresFault ==
    /\ At("Write", "loop")
    /\ IF mObjectQueue # << >>
       THEN /\ stack' = CallFrom("pop", Frame("WriteObject", "find",
                                              QueueFront(mObjectQueue), NullRTTI))
            /\ UNCHANGED result
       ELSE /\ stack' = Return
            /\ result' = IF mStreamFail THEN "false" ELSE "true"
    /\ UNCHANGED << heap, mNextIdentifier, mIdentifierMap, mClassSet, mObjectQueue,
                    mClassQueue, mStream, mStreamFail, root, calls,
                    hashVars >>

\* Lines 41-44 and 47: the loop test; call WriteObject on the front, or return.
Write_Loop ==
    /\ At("Write", "loop")
    /\ IF mObjectQueue # << >> /\ ~mStreamFail
       THEN /\ stack' = CallFrom("pop", Frame("WriteObject", "find",
                                              QueueFront(mObjectQueue), NullRTTI))
            /\ UNCHANGED result
       ELSE /\ stack' = Return
            /\ result' = IF mStreamFail THEN "false" ELSE "true"
    /\ UNCHANGED << heap, mNextIdentifier, mIdentifierMap, mClassSet, mObjectQueue,
                    mClassQueue, mStream, mStreamFail, root, calls,
                    hashVars >>

\* Line 45
Write_Pop ==
    /\ At("Write", "pop")
    /\ mObjectQueue' = QueuePop(mObjectQueue)
    /\ stack' = Goto("loop")
    /\ UNCHANGED << heap, mNextIdentifier, mIdentifierMap, mClassSet, mClassQueue,
                    mStream, mStreamFail, result, root, calls,
                    hashVars >>

(***************************************************************************)
(* ObjectStreamOut::WriteObject                                            *)
(***************************************************************************)
\* Lines 53-57: find the object's info (asserted to exist), queue its class.
WriteObject_Find ==
    /\ At("WriteObject", "find")
    /\ IF Top.inObject \in DOMAIN mIdentifierMap
       THEN LET rtti == mIdentifierMap[Top.inObject].mRTTI
                q == QueueRTTI(mClassSet, mClassQueue, rtti)
            IN /\ mClassSet' = q.mClassSet
               /\ mClassQueue' = q.mClassQueue
               /\ stack' = << [Top EXCEPT !.pc = "classes", !.inRTTI = rtti] >>
                              \o Tail(stack)
       ELSE /\ stack' = Goto("assert_failed")
            /\ UNCHANGED << mClassSet, mClassQueue >>
    /\ UNCHANGED << heap, mNextIdentifier, mIdentifierMap, mObjectQueue, mStream,
                    mStreamFail, result, root, calls,
                    hashVars >>

\* Lines 58-60: the class loop test; declare the front class or go on.
WriteObject_Classes ==
    /\ At("WriteObject", "classes")
    /\ IF mClassQueue # << >> /\ ~mStreamFail
       THEN stack' = CallFrom("class_pop", Frame("WriteRTTI", "header", NullPtr,
                                                 QueueFront(mClassQueue)))
       ELSE stack' = Goto("header")
    /\ UNCHANGED << heap, mNextIdentifier, mIdentifierMap, mClassSet, mObjectQueue,
                    mClassQueue, mStream, mStreamFail, result, root, calls,
                    hashVars >>

\* Variant of the class loop that declares one class only (an if for the
\* while of line 58).
WriteObject_ClassPop_Once ==
    /\ At("WriteObject", "class_pop")
    /\ mClassQueue' = QueuePop(mClassQueue)
    /\ stack' = Goto("header")
    /\ UNCHANGED << heap, mNextIdentifier, mIdentifierMap, mClassSet, mObjectQueue,
                    mStream, mStreamFail, result, root, calls,
                    hashVars >>

\* Line 61
WriteObject_ClassPop ==
    /\ At("WriteObject", "class_pop")
    /\ mClassQueue' = QueuePop(mClassQueue)
    /\ stack' = Goto("classes")
    /\ UNCHANGED << heap, mNextIdentifier, mIdentifierMap, mClassSet, mObjectQueue,
                    mStream, mStreamFail, result, root, calls,
                    hashVars >>

\* Lines 64-73: the object header, then the call of WriteClassData.
WriteObject_Header ==
    /\ At("WriteObject", "header")
    /\ LET info == mIdentifierMap[Top.inObject] IN
       /\ WriterCalls(<< HintNextItem, HintNextItem,
                                   WriteDataType("Object"),
                                   WriteName(info.mRTTI),
                                   WriteIdentifier(info.mIdentifier, Top.inObject) >>)
       /\ stack' = CallFrom("return", Frame("WriteClassData", "begin",
                                            Top.inObject, info.mRTTI))
    /\ UNCHANGED << heap, mNextIdentifier, mIdentifierMap, mClassSet, mObjectQueue,
                    mClassQueue, result, root, calls,
                    hashVars >>

\* Line 74
WriteObject_Return ==
    /\ At("WriteObject", "return")
    /\ stack' = Return
    /\ UNCHANGED << heap, mNextIdentifier, mIdentifierMap, mClassSet, mObjectQueue,
                    mClassQueue, mStream, mStreamFail, result, root, calls,
                    hashVars >>

(***************************************************************************)
(* ObjectStreamOut::WriteRTTI                                              *)
(***************************************************************************)
\* Lines 88-97: the class header.
WriteRTTI_Header ==
    /\ At("WriteRTTI", "header")
    /\ WriterCalls(<< HintNextItem, HintNextItem,
                                WriteDataType("Declare"),
                                WriteName(Top.inRTTI),
                                WriteCount(GetAttributeCount(Top.inRTTI)),
                                HintIndentUp >>)
    /\ stack' = Goto("attr")
    /\ UNCHANGED << heap, mNextIdentifier, mIdentifierMap, mClassSet, mObjectQueue,
                    mClassQueue, result, root, calls,
                    hashVars >>

\* Variant of the attribute loop that does not queue the member type.
WriteRTTI_Attr_NoQueue ==
    /\ At("WriteRTTI", "attr")
    /\ Top.attr_index < GetAttributeCount(Top.inRTTI)
    /\ LET attr == GetAttribute(Top.inRTTI, Top.attr_index)
       IN IF ~IsSerializableAttribute(attr)
          THEN UNCHANGED << mStream, mStreamFail >>
          ELSE WriterCalls(<< HintNextItem,
                                        WriteName(attr.name),
                                        WriteDataType(AttributeDataType(attr)) >>)
    /\ stack' = << [Top EXCEPT !.attr_index = @ + 1] >> \o Tail(stack)
    /\ UNCHANGED << heap, mNextIdentifier, mIdentifierMap, mClassSet, mClassQueue,
                    mObjectQueue, result, root, calls,
                    hashVars >>

\* Lines 98-115: one iteration of the attribute loop.
WriteRTTI_Attr ==
    /\ At("WriteRTTI", "attr")
    /\ Top.attr_index < GetAttributeCount(Top.inRTTI)
    /\ LET attr == GetAttribute(Top.inRTTI, Top.attr_index)
           rtti == GetMemberPrimitiveType(attr)
           q == IF rtti # NullRTTI
                THEN QueueRTTI(mClassSet, mClassQueue, rtti)
                ELSE [mClassSet |-> mClassSet, mClassQueue |-> mClassQueue]
       IN IF ~IsSerializableAttribute(attr)
          THEN UNCHANGED << mClassSet, mClassQueue, mStream, mStreamFail >>
          ELSE /\ mClassSet' = q.mClassSet
               /\ mClassQueue' = q.mClassQueue
               /\ WriterCalls(<< HintNextItem,
                                           WriteName(attr.name),
                                           WriteDataType(AttributeDataType(attr)) >>)
    /\ stack' = << [Top EXCEPT !.attr_index = @ + 1] >> \o Tail(stack)
    /\ UNCHANGED << heap, mNextIdentifier, mIdentifierMap, mObjectQueue,
                    result, root, calls,
                    hashVars >>

\* Variant of the end of WriteRTTI that returns without HintIndentDown.
WriteRTTI_End_NoIndentDown ==
    /\ At("WriteRTTI", "attr")
    /\ Top.attr_index >= GetAttributeCount(Top.inRTTI)
    /\ stack' = Return
    /\ UNCHANGED << heap, mNextIdentifier, mIdentifierMap, mClassSet, mObjectQueue,
                    mClassQueue, mStream, mStreamFail, result, root, calls,
                    hashVars >>

\* Lines 116-117: the loop is over.
WriteRTTI_End ==
    /\ At("WriteRTTI", "attr")
    /\ Top.attr_index >= GetAttributeCount(Top.inRTTI)
    /\ WriterCalls(<< HintIndentDown >>)
    /\ stack' = Return
    /\ UNCHANGED << heap, mNextIdentifier, mIdentifierMap, mClassSet, mObjectQueue,
                    mClassQueue, result, root, calls,
                    hashVars >>

(***************************************************************************)
(* ObjectStreamOut::WriteClassData                                         *)
(***************************************************************************)
\* Lines 121-124
WriteClassData_Begin ==
    /\ At("WriteClassData", "begin")
    /\ WriterCalls(<< HintIndentUp >>)
    /\ stack' = Goto("attr")
    /\ UNCHANGED << heap, mNextIdentifier, mIdentifierMap, mClassSet, mObjectQueue,
                    mClassQueue, result, root, calls,
                    hashVars >>

\* Variant of the data loop without the DynamicCast skip of lines 128-130:
\* a non-serializable attribute is written like a primitive.
WriteClassData_Attr_NoSkip ==
    /\ At("WriteClassData", "attr")
    /\ Top.attr_index < GetAttributeCount(Top.inRTTI)
    /\ LET attr == GetAttribute(Top.inRTTI, Top.attr_index)
           next == [Top EXCEPT !.attr_index = @ + 1]
       IN IF attr.kind # "pointer"
          THEN /\ stack' = << next >> \o Tail(stack)
               /\ WriterCalls(<< HintNextItem,
                                           WritePrimitiveData(attr.member) >>)
          ELSE LET inPointer == heap[Top.inObject][attr.name] IN
               /\ stack' = << Frame("WritePointerData", "body", inPointer,
                                    IF inPointer = NullPtr THEN NullRTTI
                                    ELSE TypeOf(inPointer)),
                              next >> \o Tail(stack)
               /\ UNCHANGED << mStream, mStreamFail >>
    /\ UNCHANGED << heap, mNextIdentifier, mIdentifierMap, mClassSet, mObjectQueue,
                    mClassQueue, result, root, calls,
                    hashVars >>

\* Lines 125-133: one iteration of the attribute loop.  attr->WriteData is
\* OSWriteData of the attribute's type: lines 175-179 for a primitive, a call
\* of WritePointerData with the pointee and its type for a pointer.
WriteClassData_Attr ==
    /\ At("WriteClassData", "attr")
    /\ Top.attr_index < GetAttributeCount(Top.inRTTI)
    /\ LET attr == GetAttribute(Top.inRTTI, Top.attr_index)
           next == [Top EXCEPT !.attr_index = @ + 1]
       IN IF ~IsSerializableAttribute(attr)
          THEN /\ stack' = << next >> \o Tail(stack)
               /\ UNCHANGED << mStream, mStreamFail >>
          ELSE IF attr.kind = "primitive"
          THEN /\ stack' = << next >> \o Tail(stack)
               /\ WriterCalls(<< HintNextItem,
                                           WritePrimitiveData(attr.member) >>)
          ELSE LET inPointer == heap[Top.inObject][attr.name] IN
               /\ stack' = << Frame("WritePointerData", "body", inPointer,
                                    IF inPointer = NullPtr THEN NullRTTI
                                    ELSE TypeOf(inPointer)),
                              next >> \o Tail(stack)
               /\ UNCHANGED << mStream, mStreamFail >>
    /\ UNCHANGED << heap, mNextIdentifier, mIdentifierMap, mClassSet, mObjectQueue,
                    mClassQueue, result, root, calls,
                    hashVars >>

\* Lines 134-135
WriteClassData_End ==
    /\ At("WriteClassData", "attr")
    /\ Top.attr_index >= GetAttributeCount(Top.inRTTI)
    /\ WriterCalls(<< HintIndentDown >>)
    /\ stack' = Return
    /\ UNCHANGED << heap, mNextIdentifier, mIdentifierMap, mClassSet, mObjectQueue,
                    mClassQueue, result, root, calls,
                    hashVars >>

(***************************************************************************)
(* ObjectStreamOut::WritePointerData                                       *)
(***************************************************************************)
\* Variant without the identifier map lookup: every non-null pointer is
\* treated as a new object.
WritePointerData_NoLookup ==
    /\ At("WritePointerData", "body")
    /\ LET inPointer == Top.inObject
           inRTTI == Top.inRTTI
       IN IF inPointer # NullPtr
          THEN /\ mNextIdentifier' = mNextIdentifier + 1
               /\ mIdentifierMap' =
                      MapInsert(mIdentifierMap, inPointer,
                                ObjectInfo(mNextIdentifier, inRTTI))
               /\ mObjectQueue' = QueuePush(mObjectQueue, inPointer)
               /\ WriterCalls(<< HintNextItem, WriteIdentifier(mNextIdentifier, inPointer) >>)
          ELSE /\ WriterCalls(<< HintNextItem, WriteIdentifier(sNullIdentifier, NullPtr) >>)
               /\ UNCHANGED << mNextIdentifier, mIdentifierMap, mObjectQueue >>
    /\ stack' = Return
    /\ UNCHANGED << heap, mClassSet, mClassQueue, result, root, calls,
                    hashVars >>

\* Variant that writes a newly allocated identifier for an object that
\* already has one.
WritePointerData_FoundAllocates ==
    /\ At("WritePointerData", "body")
    /\ LET inPointer == Top.inObject
           inRTTI == Top.inRTTI
       IN IF inPointer # NullPtr
          THEN IF inPointer \in DOMAIN mIdentifierMap
               THEN /\ WriterCalls(<< HintNextItem, WriteIdentifier(mNextIdentifier, inPointer) >>)
                    /\ mNextIdentifier' = mNextIdentifier + 1
                    /\ UNCHANGED << mIdentifierMap, mObjectQueue >>
               ELSE /\ mNextIdentifier' = mNextIdentifier + 1
                    /\ mIdentifierMap' =
                           MapInsert(mIdentifierMap, inPointer,
                                     ObjectInfo(mNextIdentifier, inRTTI))
                    /\ mObjectQueue' = QueuePush(mObjectQueue, inPointer)
                    /\ WriterCalls(<< HintNextItem, WriteIdentifier(mNextIdentifier, inPointer) >>)
          ELSE /\ WriterCalls(<< HintNextItem, WriteIdentifier(sNullIdentifier, NullPtr) >>)
               /\ UNCHANGED << mNextIdentifier, mIdentifierMap, mObjectQueue >>
    /\ stack' = Return
    /\ UNCHANGED << heap, mClassSet, mClassQueue, result, root, calls,
                    hashVars >>

\* Variant that does not advance the counter when it allocates an identifier.
WritePointerData_ReusesIdentifier ==
    /\ At("WritePointerData", "body")
    /\ LET inPointer == Top.inObject
           inRTTI == Top.inRTTI
       IN IF inPointer # NullPtr
          THEN IF inPointer \in DOMAIN mIdentifierMap
               THEN /\ WriterCalls(<< HintNextItem,
                             WriteIdentifier(mIdentifierMap[inPointer].mIdentifier,
                                             inPointer) >>)
                    /\ UNCHANGED << mNextIdentifier, mIdentifierMap, mObjectQueue >>
               ELSE /\ mNextIdentifier' = mNextIdentifier
                    /\ mIdentifierMap' =
                           MapInsert(mIdentifierMap, inPointer,
                                     ObjectInfo(mNextIdentifier, inRTTI))
                    /\ mObjectQueue' = QueuePush(mObjectQueue, inPointer)
                    /\ WriterCalls(<< HintNextItem, WriteIdentifier(mNextIdentifier, inPointer) >>)
          ELSE /\ WriterCalls(<< HintNextItem, WriteIdentifier(sNullIdentifier, NullPtr) >>)
               /\ UNCHANGED << mNextIdentifier, mIdentifierMap, mObjectQueue >>
    /\ stack' = Return
    /\ UNCHANGED << heap, mClassSet, mClassQueue, result, root, calls,
                    hashVars >>

\* Lines 137-167, the whole function.
WritePointerData ==
    /\ At("WritePointerData", "body")
    /\ LET inPointer == Top.inObject
           inRTTI == Top.inRTTI
       IN IF inPointer # NullPtr
          THEN IF inPointer \in DOMAIN mIdentifierMap
               THEN /\ WriterCalls(<< HintNextItem,
                             WriteIdentifier(mIdentifierMap[inPointer].mIdentifier,
                                             inPointer) >>)
                    /\ UNCHANGED << mNextIdentifier, mIdentifierMap, mObjectQueue >>
               ELSE /\ mNextIdentifier' = mNextIdentifier + 1
                    /\ mIdentifierMap' =
                           MapInsert(mIdentifierMap, inPointer,
                                     ObjectInfo(mNextIdentifier, inRTTI))
                    /\ mObjectQueue' = QueuePush(mObjectQueue, inPointer)
                    /\ WriterCalls(<< HintNextItem, WriteIdentifier(mNextIdentifier, inPointer) >>)
          ELSE /\ WriterCalls(<< HintNextItem, WriteIdentifier(sNullIdentifier, NullPtr) >>)
               /\ UNCHANGED << mNextIdentifier, mIdentifierMap, mObjectQueue >>
    /\ stack' = Return
    /\ UNCHANGED << heap, mClassSet, mClassQueue, result, root, calls,
                    hashVars >>

(***************************************************************************)
(* The caller.                                                             *)
(***************************************************************************)
\* The caller serializes the next object of its plan.
Write ==
    /\ calls # << >>
    /\ Write_Begin(Head(calls), TypeOf(Head(calls)))

Next ==
    \/ Write
    \/ Write_Loop
    \/ Write_Pop
    \/ WriteObject_Find
    \/ WriteObject_Classes
    \/ WriteObject_ClassPop
    \/ WriteObject_Header
    \/ WriteObject_Return
    \/ WriteRTTI_Header
    \/ WriteRTTI_Attr
    \/ WriteRTTI_End
    \/ WriteClassData_Begin
    \/ WriteClassData_Attr
    \/ WriteClassData_End
    \/ WritePointerData

\* The steps of the Write in progress: everything but the caller's call and
\* the writer's fault.
Run ==
    \/ Write_Loop
    \/ Write_Pop
    \/ WriteObject_Find
    \/ WriteObject_Classes
    \/ WriteObject_ClassPop
    \/ WriteObject_Header
    \/ WriteObject_Return
    \/ WriteRTTI_Header
    \/ WriteRTTI_Attr
    \/ WriteRTTI_End
    \/ WriteClassData_Begin
    \/ WriteClassData_Attr
    \/ WriteClassData_End
    \/ WritePointerData

\* One session: one Write on a freshly constructed serializer.
Spec == Init /\ [][Next]_vars

\* Write runs synchronously on the calling thread: once called, it keeps
\* executing its next statement.
FairSpec == Init /\ [][Next]_vars /\ WF_vars(Run)

\* Reuse: several Write calls on the same serializer.
InitReuse ==
    /\ calls \in Plans(MaxWrites)
    /\ heap \in { h \in Heaps : UnreadIsNull(h, calls) }
    /\ Constructed
    /\ HashIdle

SpecReuse == InitReuse /\ [][Next]_vars

(***************************************************************************)
(* hash_combine and the hash struct of JPH_MAKE_HASH_STRUCT.               *)
(***************************************************************************)
serializerVars == << heap, mNextIdentifier, mIdentifierMap, mClassSet, mObjectQueue,
                     mClassQueue, mStream, mStreamFail, stack, result, root, calls >>

\* A caller calls hash_combine(seed, v1, ..., vn) on a seed of its own.
HashCombine_Call ==
    /\ hashPc = "idle"
    /\ ~hashArgs.struct
    /\ hashPc' = "combine"
    /\ inValues' = hashArgs.values
    /\ UNCHANGED << ioSeed, hashArgs, serializerVars >>

\* Lines 43-44: operator() of the generated hash struct sets ret to 0 and
\* calls hash_combine(ret, fields...).
HashStruct_Call ==
    /\ hashPc = "idle"
    /\ hashArgs.struct
    /\ ioSeed' = Zero
    /\ hashPc' = "combine"
    /\ inValues' = hashArgs.values
    /\ UNCHANGED << hashArgs, serializerVars >>

\* Lines 25-31: the overload with a first value combines it into the seed
\* and calls hash_combine with the rest.
HashCombine_Value ==
    /\ hashPc = "combine"
    /\ inValues # << >>
    /\ ioSeed' = HashStep(ioSeed, Head(inValues))
    /\ inValues' = Tail(inValues)
    /\ UNCHANGED << hashPc, hashArgs, serializerVars >>

\* Lines 8-10: the overload without values does nothing; the calls return.
HashCombine_NoValue ==
    /\ hashPc = "combine"
    /\ inValues = << >>
    /\ hashPc' = "done"
    /\ UNCHANGED << ioSeed, inValues, hashArgs, serializerVars >>

NextHash ==
    \/ HashCombine_Call
    \/ HashStruct_Call
    \/ HashCombine_Value
    \/ HashCombine_NoValue

\* The caller's seed and values, and whether it goes through a generated
\* hash struct; the serializer is not used.
InitHash ==
    /\ calls = << >>
    /\ heap \in { h \in Heaps : UnreadIsNull(h, calls) }
    /\ Constructed
    /\ hashArgs \in [seed : Seeds, values : ValueLists, struct : BOOLEAN]
    /\ ioSeed = hashArgs.seed
    /\ inValues = << >>
    /\ hashPc = "idle"

SpecHash == InitHash /\ [][NextHash]_vars

(***************************************************************************)
(* Reading the writer's call log.                                          *)
(***************************************************************************)
\* Positions of the record tags of object records and class declarations.
ObjectRecords(log) ==
    { i \in 1 .. Len(log) - 2 :
        log[i].op = "WriteDataType" /\ log[i].s = "Object" }

Declarations(log) ==
    { i \in 1 .. Len(log) - 2 :
        log[i].op = "WriteDataType" /\ log[i].s = "Declare" }

\* The name and identifier that follow a record tag at position i.
RecordName(log, i) == log[i + 1].s
RecordIdentifier(log, i) == log[i + 2].n
RecordObject(log, i) == log[i + 2].obj

IdentifierCalls(log) ==
    { i \in 1 .. Len(log) : log[i].op = "WriteIdentifier" }

\* Identifiers written as references: those that are not part of a header.
References(log) ==
    LET records == ObjectRecords(log)
    IN { i \in IdentifierCalls(log) : i - 2 \notin records }

(***************************************************************************)
(* The object graph and the class graph.                                   *)
(***************************************************************************)
\* The object closure of a root.
Closure(inObject) == ReachableFrom(heap, {inObject})

\* The reflected member types of a class's serializable attributes.
MemberClasses(inRTTI) ==
    { Attributes(inRTTI)[i].member :
        i \in { j \in 1 .. Len(Attributes(inRTTI)) :
                  IsSerializableAttribute(Attributes(inRTTI)[j]) } } \cap Classes

RECURSIVE ClassesFrom(_)
ClassesFrom(S) ==
    LET T == S \cup UNION { MemberClasses(c) : c \in S }
    IN IF T = S THEN S ELSE ClassesFrom(T)

\* A class and every class reachable from it through member types.
NeededClasses(inRTTI) == ClassesFrom({inRTTI})

\* The two as tables over the reflected classes.
MemberClassesOf == [c \in Classes |-> MemberClasses(c)]
NeededClassesOf == [c \in Classes |-> NeededClasses(c)]

(***************************************************************************)
(* Claims.                                                                 *)
(***************************************************************************)

\* C1: when a fault-free Write on a fresh serializer returns, the identifier
\* map holds exactly the objects reachable from the root, each with its own
\* identifier, each reachable object has exactly one object record, carrying
\* that identifier, and there are as many object records as reachable objects.
C1_ReachableWrittenOnce ==
    result = "true" =>
        LET w == Written
            R == Closure(root)
        IN /\ DOMAIN mIdentifierMap = R
           /\ \A o \in R :
                /\ Cardinality({ i \in ObjectRecords(w) : RecordObject(w, i) = o }) = 1
                /\ \A i \in ObjectRecords(w) :
                     RecordObject(w, i) = o =>
                        RecordIdentifier(w, i) = mIdentifierMap[o].mIdentifier
           /\ \A o1, o2 \in R :
                o1 # o2 => mIdentifierMap[o1].mIdentifier # mIdentifierMap[o2].mIdentifier
           /\ Cardinality(ObjectRecords(w)) = Cardinality(R)

\* A fault-free Write of a graph with a shared object and a cycle has returned.
C1_Witness ==
    /\ result = "true"
    /\ root = 1
    /\ heap[1]["first"] = 2
    /\ heap[1]["second"] = 2
    /\ heap[2]["next"] = 3
    /\ heap[3]["next"] = 2
    /\ Cardinality(ObjectRecords(Written)) = 3

\* C2: in what reached the destination, every object record of type T comes
\* after a declaration of T and of every class reachable from T through member
\* types, and no declaration of T or of a member type of T comes after it.
C2_DeclaredBeforeUse ==
    LET w == Written
        declarations == Declarations(w)
    IN
    \A i \in ObjectRecords(w) :
        /\ \A c \in NeededClassesOf[RecordName(w, i)] :
              \E j \in declarations : j < i /\ RecordName(w, j) = c
        /\ \A j \in declarations :
              RecordName(w, j) \in {RecordName(w, i)} \cup MemberClassesOf[RecordName(w, i)]
                  => j < i

\* A Pair whose pointers are both null was written: Node had to be declared
\* although no Node object exists in the stream.
C2_Witness ==
    /\ result = "true"
    /\ root = 1
    /\ heap[1]["first"] = NullPtr
    /\ heap[1]["second"] = NullPtr
    /\ Cardinality(Declarations(Written)) = 2
    /\ Cardinality(ObjectRecords(Written)) = 1

\* C3: no class is declared more than once, however many of its instances
\* are written and however many attributes name it as member type; a class
\* with at least one object record has exactly one declaration; the class
\* queue holds no class twice and only classes of the class set.
C3_DeclaredOnce ==
    /\ LET w == Written
           called == Declarations(mStream)
           declarations == Declarations(w)
           records == ObjectRecords(w)
       IN \A c \in Classes :
            /\ Cardinality({ j \in called : RecordName(mStream, j) = c }) <= 1
            /\ (\E i \in records : RecordName(w, i) = c)
                  => Cardinality({ j \in declarations : RecordName(w, j) = c }) = 1
    /\ \A i, j \in 1 .. Len(mClassQueue) :
         /\ mClassQueue[i] \in mClassSet
         /\ i # j => mClassQueue[i] # mClassQueue[j]

\* Two Node objects were written in a fault-free Write that started at a Pair
\* (Node is named as member type three times and has two instances).
C3_Witness ==
    /\ result = "true"
    /\ root = 1
    /\ Cardinality({ i \in ObjectRecords(Written) : RecordName(Written, i) = "Node" }) = 2

\* C4: an identifier written as a reference is the null identifier exactly
\* when the pointer was null, and every identifier allocated to an object
\* (map entries, the counter) is at least 1, hence never the null identifier.
C4_NullOnlyForNull ==
    /\ \A i \in References(mStream) :
          (mStream[i].n = sNullIdentifier) <=> (mStream[i].obj = NullPtr)
    /\ \A o \in DOMAIN mIdentifierMap :
          /\ mIdentifierMap[o].mIdentifier >= 1
          /\ mIdentifierMap[o].mIdentifier # sNullIdentifier
    /\ mNextIdentifier >= 1

\* Both a null and a non-null reference have been written.
C4_Witness ==
    /\ \E i \in References(mStream) : mStream[i].obj = NullPtr
    /\ \E i \in References(mStream) : mStream[i].obj # NullPtr

\* C5: all identifiers written for one object, in its record header and in
\* every reference to it, are equal; and after a fault-free Write every
\* non-null reference has the object record of its pointee in the output.
C5_ReferencesMatchRecords ==
    /\ \A i, j \in IdentifierCalls(mStream) :
          (mStream[i].obj = mStream[j].obj /\ mStream[i].obj # NullPtr)
              => mStream[i].n = mStream[j].n
    /\ result = "true" =>
          LET w == Written
              records == ObjectRecords(w)
          IN \A i \in References(w) :
                 w[i].n # sNullIdentifier =>
                     \E k \in records :
                         /\ RecordIdentifier(w, k) = w[i].n
                         /\ RecordObject(w, k) = w[i].obj

\* Object 3 is referenced by the root, by object 2 and by itself.
C5_Witness ==
    /\ result = "true"
    /\ root = 1
    /\ heap[1]["first"] = 2
    /\ heap[1]["second"] = 3
    /\ heap[2]["next"] = 3
    /\ heap[3]["next"] = 3
    /\ Cardinality({ i \in References(Written) : Written[i].obj = 3 }) = 3

\* C6: every Write that was called returns, whatever the graph (cycles and
\* self references included); a fault-free return leaves the object queue
\* empty; and a reference to an object that is already registered leaves the
\* object queue, the identifier map and the counter as they were.
C6_WriteTerminates ==
    /\ (~Idle) ~> Idle
    /\ [](result = "true" => (Idle /\ mObjectQueue = << >>))
    /\ [][ (At("WritePointerData", "body") /\ stack' # stack
              /\ Top.inObject \in DOMAIN mIdentifierMap)
           => /\ mObjectQueue' = mObjectQueue
              /\ mIdentifierMap' = mIdentifierMap
              /\ mNextIdentifier' = mNextIdentifier ]_vars

\* A fault-free Write of an object whose next pointer refers to itself has
\* returned; its record holds one reference, to itself.
C6_Witness ==
    /\ result = "true"
    /\ Idle
    /\ root = 2
    /\ heap[2]["next"] = 2
    /\ Cardinality({ i \in References(Written) : Written[i].obj = 2 }) = 1
    /\ Cardinality(ObjectRecords(Written)) = 1

\* C7: the call log only grows and nothing logged is changed; once the stream
\* has faulted nothing more reaches the destination; the loop of Write, when
\* it finds the stream faulted, takes no object from the object queue and
\* returns false; and Write returns true exactly when the stream is good at
\* the end of the traversal.
C7_FaultHalts ==
    /\ [][ /\ Len(mStream') >= Len(mStream)
           /\ SubSeq(mStream', 1, Len(mStream)) = mStream ]_vars
    /\ [][ mStreamFail => Written' = Written ]_vars
    /\ [][ (At("Write", "loop") /\ mStreamFail /\ stack' # stack)
           => /\ stack' = << >>
              /\ result' = "false"
              /\ mObjectQueue' = mObjectQueue ]_vars
    /\ [][ (~Idle /\ Idle') => (result' = "true" <=> ~mStreamFail') ]_vars
    /\ []((Idle /\ result # "none") => (result = "true" <=> ~mStreamFail))

\* Write returned false with objects still queued and one object record
\* already at the destination.
C7_Witness ==
    /\ Idle
    /\ result = "false"
    /\ mObjectQueue # << >>
    /\ Cardinality(ObjectRecords(Written)) >= 1
    /\ Len(Written) < Len(mStream)

\* C8: while a Write runs, its root holds identifier 1 and the identifier
\* map, the object queue and the class queue hold nothing but objects of the
\* root's closure and classes these objects need, i.e. nothing left by an
\* earlier Write on the same serializer.
C8_WriteIsOwnSession ==
    result = "running" =>
        /\ root \in DOMAIN mIdentifierMap
        /\ mIdentifierMap[root].mIdentifier = sNullIdentifier + 1
        /\ DOMAIN mIdentifierMap \subseteq Closure(root)
        /\ \A i \in 1 .. Len(mObjectQueue) : mObjectQueue[i] \in Closure(root)
        /\ \A i \in 1 .. Len(mClassQueue) :
              mClassQueue[i] \in UNION { NeededClasses(TypeOf(o)) : o \in Closure(root) }

\* C9: an identifier map entry, once made, is never removed or changed; the
\* counter never goes back and lies above every identifier handed out; no two
\* objects hold the same identifier.
C9_IdentifiersStable ==
    /\ [][ \A o \in DOMAIN mIdentifierMap :
              /\ o \in DOMAIN mIdentifierMap'
              /\ mIdentifierMap'[o] = mIdentifierMap[o] ]_vars
    /\ [][ mNextIdentifier' >= mNextIdentifier ]_vars
    /\ [](\A o \in DOMAIN mIdentifierMap :
              mIdentifierMap[o].mIdentifier < mNextIdentifier)
    /\ [](\A o1, o2 \in DOMAIN mIdentifierMap :
              o1 # o2 => mIdentifierMap[o1].mIdentifier # mIdentifierMap[o2].mIdentifier)

\* Three objects are registered, with identifiers that differ from the order
\* of the objects in the heap.
C9_Witness ==
    /\ DOMAIN mIdentifierMap = {1, 2, 3}
    /\ mIdentifierMap[3].mIdentifier = 2
    /\ mIdentifierMap[2].mIdentifier = 3
    /\ mNextIdentifier = 4

\* The identifiers passed to WriteIdentifier, in order.
IdentifierSeq(log) ==
    LET ids == SelectSeq(log, LAMBDA c : c.op = "WriteIdentifier")
    IN [ k \in 1 .. Len(ids) |-> ids[k].n ]

\* C10: in a Write on a fresh serializer the k-th object record of the output
\* carries identifier k; identifiers are handed out in the order in which the
\* objects are first seen (the root, then the pointees of the root in
\* attribute order); and for the chain root -> second -> null the identifiers
\* written are 1 (record), 2 (reference), 2 (record), 0 (reference).
C10_BreadthFirstOrder ==
    LET w == Written IN
    /\ \A i \in ObjectRecords(w) :
          RecordIdentifier(w, i) = 1 + Cardinality({ j \in ObjectRecords(w) : j < i })
    /\ \A i \in 1 .. Len(mObjectQueue) :
          \A j \in 1 .. Len(mObjectQueue) :
              i < j => mIdentifierMap[mObjectQueue[i]].mIdentifier
                         < mIdentifierMap[mObjectQueue[j]].mIdentifier
    /\ (result = "true" /\ root = 1 /\ heap[1]["first"] # NullPtr
          /\ heap[1]["second"] \notin {NullPtr, heap[1]["first"]})
       => /\ mIdentifierMap[heap[1]["first"]].mIdentifier = 2
          /\ mIdentifierMap[heap[1]["second"]].mIdentifier = 3
    /\ (result = "true" /\ root # 1 /\ heap[root]["next"] \notin {NullPtr, root}
          /\ heap[heap[root]["next"]]["next"] = NullPtr)
       => IdentifierSeq(w) = << 1, 2, 2, 0 >>

\* A fault-free Write of a Pair whose first pointer is object 3 and whose
\* second pointer is object 2 has returned: three records, objects 1, 3, 2.
C10_Witness ==
    /\ result = "true"
    /\ root = 1
    /\ heap[1]["first"] = 3
    /\ heap[1]["second"] = 2
    /\ heap[3]["next"] = NullPtr
    /\ heap[2]["next"] = NullPtr
    /\ Cardinality(ObjectRecords(Written)) = 3

(***************************************************************************)
(* C11-C20                                                                 *)
(***************************************************************************)
\* WriteObject has passed its class loop: it is at the object header
\* (lines 64-70) or in the call of WriteClassData (line 73).
WriteObject_PastClassLoop ==
    \E k \in 1 .. Len(stack) :
        stack[k].fn = "WriteObject" /\ stack[k].pc \in {"header", "return"}

\* C11 as stated: whenever WriteObject is at its object header or in the
\* attribute data after it, the Class Queue is empty.
C11_QueueEmptyAtHeader ==
    WriteObject_PastClassLoop => mClassQueue = << >>

\* C11 (amended): as long as the writer has not faulted, the Class Queue is
\* empty whenever WriteObject is at its object header or in the attribute
\* data after it, so every object header that reaches the destination is
\* written with an empty Class Queue.
C11_QueueEmptyAtHeaderUnlessFault ==
    (WriteObject_PastClassLoop /\ ~mStreamFail) => mClassQueue = << >>

\* WriteObject is at the header of a Pair on a good writer after its class
\* loop has declared two classes, Pair and the Node found while declaring it.
C11_Witness ==
    /\ At("WriteObject", "header")
    /\ ~mStreamFail
    /\ Top.inRTTI = "Pair"
    /\ Cardinality(Declarations(Written)) = 2

\* The position of the HintIndentDown that closes the record whose tag is at
\* position i, or 0 while the record is still open.
RecordEnd(log, i) ==
    LET downs == { k \in i + 1 .. Len(log) : log[k].op = "HintIndentDown" }
    IN IF downs = {} THEN 0 ELSE CHOOSE k \in downs : \A m \in downs : k <= m

\* The record tags whose record has been closed.
CompleteRecords(log, tags) ==
    { i \in tags : \E k \in i + 1 .. Len(log) : log[k].op = "HintIndentDown" }

\* The calls between the HintIndentUp and the HintIndentDown of a record.
RecordBody(log, i) == SubSeq(log, i + 4, RecordEnd(log, i) - 1)

\* The attribute count a declaration announces (line 94).
DeclaredCount(log, i) == log[i + 2].n

\* The data-type tags of the attribute entries of a declaration (line 114),
\* in the order written.
AttributeEntries(log, i) ==
    LET tags == SelectSeq(RecordBody(log, i), LAMBDA c : c.op = "WriteDataType")
    IN [k \in 1 .. Len(tags) |-> tags[k].s]

\* C12: in every completed class declaration the attribute count written
\* equals the number of attribute entries (name and data-type tag) that
\* follow it, also for a type with a non-serializable attribute.
C12_CountMatchesEntries ==
    LET w == Written IN
    \A i \in CompleteRecords(w, Declarations(w)) :
        DeclaredCount(w, i) = Len(AttributeEntries(w, i))

\* The data items of an object record, in the order written, each named by
\* the data-type tag its attribute entry carries: a primitive value written
\* by lines 175-179, or an identifier written by WritePointerData.
DataItems(log, i) ==
    LET items == SelectSeq(RecordBody(log, i),
                           LAMBDA c : c.op \in {"WritePrimitiveData", "WriteIdentifier"})
    IN [k \in 1 .. Len(items) |->
          IF items[k].op = "WriteIdentifier" THEN "Pointer" ELSE "T_" \o items[k].s]

\* C13: the data items of every completed object record are, one for one and
\* in the same order, the attribute entries of the declaration of the
\* record's class: the i-th data item has the data type the i-th entry names.
C13_DataMatchesDeclaration ==
    LET w == Written
        declarations == CompleteRecords(w, Declarations(w))
    IN
    \A i \in CompleteRecords(w, ObjectRecords(w)) :
        \E j \in declarations :
            /\ j < i
            /\ RecordName(w, j) = RecordName(w, i)
            /\ DataItems(w, i) = AttributeEntries(w, j)

\* The record of a Pair, a class with a skipped attribute, is complete: three
\* data items for its four attributes.
C13_Witness ==
    LET w == Written IN
    \E i \in CompleteRecords(w, ObjectRecords(w)) :
        /\ RecordName(w, i) = "Pair"
        /\ DataItems(w, i) = << "T_int", "Pointer", "Pointer" >>

\* A step of WritePointerData (lines 137-167) from the current state.
WritePointerData_Step ==
    /\ stack # << >>
    /\ Top.fn = "WritePointerData"
    /\ stack' # stack

\* C14: a call of WritePointerData with a null pointer or with a pointer that
\* is already in the Identity Map changes neither the map, the counter, the
\* Object Queue, the Declared-Class Set nor the Class Queue, and makes two
\* writer calls: a boundary hint, then an identifier (0 for null, else the
\* mapped one).  A call with a pointer not yet in the map adds exactly that
\* one entry with the counter's value, increments the counter by one, pushes
\* the pointer at the back of the Object Queue, leaves the class set and
\* class queue alone, and makes the same two calls with the new identifier.
C14_PointerDataFrame ==
    [][ WritePointerData_Step =>
          LET inPointer == Top.inObject
              known == inPointer \in DOMAIN mIdentifierMap
              identifier == IF inPointer = NullPtr THEN sNullIdentifier
                            ELSE IF known THEN mIdentifierMap[inPointer].mIdentifier
                            ELSE mNextIdentifier
          IN /\ Len(mStream') = Len(mStream) + 2
             /\ SubSeq(mStream', 1, Len(mStream)) = mStream
             /\ mStream'[Len(mStream) + 1].op = "HintNextItem"
             /\ mStream'[Len(mStream) + 2].op = "WriteIdentifier"
             /\ mStream'[Len(mStream) + 2].n = identifier
             /\ UNCHANGED << mClassSet, mClassQueue >>
             /\ IF inPointer = NullPtr \/ known
                THEN UNCHANGED << mIdentifierMap, mNextIdentifier, mObjectQueue >>
                ELSE /\ DOMAIN mIdentifierMap' = DOMAIN mIdentifierMap \cup {inPointer}
                     /\ \A o \in DOMAIN mIdentifierMap :
                            mIdentifierMap'[o] = mIdentifierMap[o]
                     /\ mIdentifierMap'[inPointer].mIdentifier = mNextIdentifier
                     /\ mNextIdentifier' = mNextIdentifier + 1
                     /\ mObjectQueue' = Append(mObjectQueue, inPointer)
    ]_vars

\* All three cases have happened in one Write: a Pair whose first pointer is
\* a new object and whose second pointer is that same object has been
\* written, and the Node's null next pointer after it.
C14_Witness ==
    /\ root = 1
    /\ heap[1]["first"] = 2
    /\ heap[1]["second"] = 2
    /\ heap[2]["next"] = NullPtr
    /\ Cardinality({ i \in References(mStream) : mStream[i].obj = 2 }) = 2
    /\ \E i \in References(mStream) : mStream[i].n = sNullIdentifier

\* The types WriteRTTI(inRTTI) adds to the Class Queue from its attribute
\* number k on, in the order of their discovery, given the types already in
\* the Declared-Class Set.
RECURSIVE Discovered(_, _, _)
Discovered(inRTTI, k, seen) ==
    IF k >= GetAttributeCount(inRTTI) THEN << >>
    ELSE LET attr == GetAttribute(inRTTI, k)
             rtti == GetMemberPrimitiveType(attr)
         IN IF IsSerializableAttribute(attr) /\ rtti # NullRTTI /\ rtti \notin seen
            THEN << rtti >> \o Discovered(inRTTI, k + 1, seen \cup {rtti})
            ELSE Discovered(inRTTI, k + 1, seen)

\* The order of first discovery: the classes in the order in which a
\* first-in first-out drain of the given queue declares them.
RECURSIVE DiscoveryOrder(_, _)
DiscoveryOrder(queue, seen) ==
    IF queue = << >> THEN << >>
    ELSE LET found == Discovered(Head(queue), 0, seen)
         IN << Head(queue) >>
              \o DiscoveryOrder(Tail(queue) \o found,
                                seen \cup { found[k] : k \in 1 .. Len(found) })

\* The order of first discovery when the drain starts with one class, which
\* WriteObject has just queued (line 57).
DiscoveryOrderOf ==
    [c \in Classes |-> DiscoveryOrder(<< c >>, Primitives \cup {c})]

\* The class names of the declarations in a log, in the order written.
DeclaredNames(log) ==
    LET tags == SelectSeq([k \in 1 .. Len(log) - 1 |-> k],
                          LAMBDA k : log[k].op = "WriteDataType" /\ log[k].s = "Declare")
    IN [k \in 1 .. Len(tags) |-> log[tags[k] + 1].s]

IsPrefix(s, t) == Len(s) <= Len(t) /\ s = SubSeq(t, 1, Len(s))

\* The declarations made so far followed by the classes still waiting in the
\* Class Queue (its front entry stays queued while it is being declared).
DeclaredThenQueued ==
    LET declared == DeclaredNames(mStream)
        waiting == IF /\ mClassQueue # << >>
                      /\ declared # << >>
                      /\ declared[Len(declared)] = QueueFront(mClassQueue)
                   THEN QueuePop(mClassQueue) ELSE mClassQueue
    IN declared \o waiting

\* Declarations are made in the order of first discovery, and the waiting
\* classes continue that order.
DeclaredInDiscoveryOrder ==
    root # NullPtr => IsPrefix(DeclaredThenQueued, DiscoveryOrderOf[TypeOf(root)])

\* C15 as stated: declarations are made in the order of first discovery, a
\* class before the member types found while declaring it, and every type
\* discovered so far has been declared when WriteObject goes on to the
\* object header.
C15_FifoDeclarations ==
    /\ DeclaredInDiscoveryOrder
    /\ WriteObject_PastClassLoop =>
           \A c \in mClassSet \ Primitives :
               \E j \in Declarations(mStream) : RecordName(mStream, j) = c

\* C15 (amended): declarations are made in the order of first discovery, a
\* class before the member types found while declaring it; and as long as
\* the writer has not faulted, every type discovered so far has a completed
\* declaration at the destination when WriteObject goes on to the object
\* header.
C15_FifoDeclarationsUnlessFault ==
    /\ DeclaredInDiscoveryOrder
    /\ (WriteObject_PastClassLoop /\ ~mStreamFail) =>
           LET w == Written
               declared == { RecordName(w, j) : j \in CompleteRecords(w, Declarations(w)) }
           IN mClassSet \ Primitives \subseteq declared

\* Node was discovered while Pair was being declared: Pair's declaration is
\* open, Node waits behind Pair in the Class Queue.
C15_Witness ==
    /\ At("WriteRTTI", "attr")
    /\ Top.inRTTI = "Pair"
    /\ mClassQueue = << "Pair", "Node" >>
    /\ DeclaredNames(mStream) = << "Pair" >>

\* The indentation hints of a log, in the order called.
IndentHints(log) ==
    SelectSeq(log, LAMBDA c : c.op \in {"HintIndentUp", "HintIndentDown"})

\* The hints alternate, HintIndentUp first: in every prefix the
\* HintIndentDown calls are as many as the HintIndentUp calls or one fewer.
HintsAlternate(hints) ==
    \A k \in 1 .. Len(hints) :
        hints[k].op = IF k % 2 = 1 THEN "HintIndentUp" ELSE "HintIndentDown"

\* Some WriteRTTI or WriteClassData call is between its HintIndentUp and its
\* HintIndentDown.
InsideIndentedLoop ==
    \E k \in 1 .. Len(stack) :
        stack[k].fn \in {"WriteRTTI", "WriteClassData"} /\ stack[k].pc = "attr"

\* C16: the indentation hints are balanced.  The HintIndentUp and
\* HintIndentDown calls made on the writer alternate, HintIndentUp first, so
\* that no prefix of the calls has more HintIndentDown than HintIndentUp
\* calls; one HintIndentUp is open exactly while WriteRTTI or WriteClassData
\* is in its attribute loop, none otherwise; and when Write has returned,
\* true or false, the two counts are equal.
C16_IndentBalanced ==
    LET hints == IndentHints(mStream)
        depth == Len(hints) % 2
    IN /\ HintsAlternate(hints)
       /\ depth = IF InsideIndentedLoop THEN 1 ELSE 0
       /\ result \in {"true", "false"} => depth = 0

\* A Write of a Pair (a class with a skipped attribute) has returned false:
\* the writer faulted inside an indented loop, and the HintIndentDown calls
\* made after the fault closed every HintIndentUp.
C16_Witness ==
    /\ result = "false"
    /\ root = 1
    /\ \E i \in 1 .. Len(mStream) : mStream[i].op = "HintIndentDown" /\ ~mStream[i].ok
    /\ \E i \in 1 .. Len(mStream) : mStream[i].op = "HintIndentUp" /\ mStream[i].ok

\* The object's record is complete: its header and the HintIndentDown that
\* closes its attribute data have been handed to the writer.
RecordComplete(o) ==
    \E i \in 1 .. Len(mStream) - 2 :
        /\ mStream[i].op = "WriteDataType"
        /\ mStream[i].s = "Object"
        /\ RecordObject(mStream, i) = o
        /\ \E k \in i + 3 .. Len(mStream) : mStream[k].op = "HintIndentDown"

\* WriteObject is running for the object and has not yet got WriteClassData
\* back (line 73).
CurrentlyWritten(o) ==
    \E k \in 1 .. Len(stack) :
        /\ stack[k].fn = "WriteObject"
        /\ stack[k].inObject = o
        /\ ~(k = 1 /\ stack[k].pc = "return")

\* The loop of Write has taken the front of the Object Queue (line 43) and
\* not yet popped it (line 45).
FrontTaken == stack # << >> /\ stack[Len(stack)].pc = "pop"

\* The object waits in the Object Queue: it is queued and the loop of Write
\* has not yet taken it.
PendingInQueue(o) ==
    \E k \in 1 .. Len(mObjectQueue) :
        mObjectQueue[k] = o /\ ~(k = 1 /\ FrontTaken)

\* C17: during and after a Write on a fresh serializer, every object in the
\* Identity Map is in exactly one of three conditions: its record is
\* complete, it is being written, or it waits in the Object Queue.  The
\* Object Queue holds no object twice and only objects of the map, and the
\* lookup of WriteObject (line 53) never fails.
C17_ObjectLifecycle ==
    /\ LET complete == { RecordObject(mStream, i) :
                            i \in CompleteRecords(mStream, ObjectRecords(mStream)) }
           current == { o \in DOMAIN mIdentifierMap : CurrentlyWritten(o) }
           pending == { o \in DOMAIN mIdentifierMap : PendingInQueue(o) }
       IN /\ complete \cup current \cup pending = DOMAIN mIdentifierMap
          /\ complete \cap current = {}
          /\ complete \cap pending = {}
          /\ current \cap pending = {}
    /\ \A i \in 1 .. Len(mObjectQueue) :
          /\ mObjectQueue[i] \in DOMAIN mIdentifierMap
          /\ \A j \in 1 .. Len(mObjectQueue) :
                 mObjectQueue[i] = mObjectQueue[j] => i = j
    /\ \A k \in 1 .. Len(stack) : stack[k].pc # "assert_failed"

\* The three conditions at once: the root Pair's record is complete, its
\* first pointee is being written, its second pointee waits in the queue.
C17_Witness ==
    /\ root = 1
    /\ heap[1]["first"] = 2
    /\ heap[1]["second"] = 3
    /\ RecordComplete(1)
    /\ CurrentlyWritten(2)
    /\ PendingInQueue(3)
    /\ mObjectQueue = << 2, 3 >>

\* The types whose declaration has been emitted or is being emitted:
\* WriteRTTI is running for them, or their declaration header has been
\* handed to the writer.
DeclaredOrDeclaring ==
    { stack[k].inRTTI : k \in { n \in 1 .. Len(stack) : stack[n].fn = "WriteRTTI" } }
        \cup { RecordName(mStream, j) : j \in Declarations(mStream) }

\* The class loop of WriteObject has taken the front of the Class Queue
\* (line 60) and not yet popped it (line 61).
ClassFrontTaken ==
    \E k \in 1 .. Len(stack) :
        stack[k].fn = "WriteObject" /\ stack[k].pc = "class_pop"

\* The types that wait in the Class Queue: those queued that the class loop
\* has not yet taken.
PendingInClassQueue ==
    { mClassQueue[k] :
        k \in { n \in 1 .. Len(mClassQueue) : ~(n = 1 /\ ClassFrontTaken) } }

\* C18: every type in the Declared-Class Set is exactly one of: a primitive
\* the constructor inserted, a type whose declaration has been or is being
\* emitted, or a type waiting in the Class Queue.  The Class Queue holds no
\* type twice, only types of the set, and never a primitive; no primitive is
\* ever declared.
C18_ClassLifecycle ==
    /\ LET primitive == mClassSet \cap Primitives
           declared == DeclaredOrDeclaring
           pending == PendingInClassQueue
       IN /\ primitive \cup declared \cup pending = mClassSet
          /\ primitive \cap declared = {}
          /\ primitive \cap pending = {}
          /\ declared \cap pending = {}
          /\ declared \cap Primitives = {}
    /\ \A i \in 1 .. Len(mClassQueue) :
          /\ mClassQueue[i] \in mClassSet \ Primitives
          /\ \A j \in 1 .. Len(mClassQueue) :
                 mClassQueue[i] = mClassQueue[j] => i = j

\* The three conditions at once: the primitives from the constructor, Pair
\* being declared after its primitive and pointer members were looked at,
\* and Node waiting in the Class Queue.
C18_Witness ==
    /\ mClassSet = Primitives \cup {"Pair", "Node"}
    /\ At("WriteRTTI", "attr")
    /\ Top.inRTTI = "Pair"
    /\ Top.attr_index = GetAttributeCount("Pair")
    /\ "Pair" \in DeclaredOrDeclaring
    /\ PendingInClassQueue = {"Node"}

\* The identifiers held by the Identity Map.
MapIdentifiers == { mIdentifierMap[o].mIdentifier : o \in DOMAIN mIdentifierMap }

\* C19: after any sequence of Write calls on one serializer, a Write whose
\* root is already in the Identity Map included, the identifiers in the map
\* are exactly 1 .. mNextIdentifier - 1, one object per identifier: every
\* increment of the counter has made exactly one new map entry.
C19_IdentifiersContiguous ==
    /\ MapIdentifiers = 1 .. mNextIdentifier - 1
    /\ Cardinality(DOMAIN mIdentifierMap) = mNextIdentifier - 1

\* The left fold of the claim over the first n values: the one-value step
\* seed := seed XOR (hash(v) + 0x9e3779b9 + (seed << 6) + (seed >> 2)),
\* applied for v1 through vn in that order.
RECURSIVE LeftFold(_, _, _)
LeftFold(seed, values, n) ==
    IF n = 0 THEN seed
    ELSE LET s == LeftFold(seed, values, n - 1)
         IN Xor(s, Add(Add(Add(Hasher(values[n]), Hex(<< 9, 14, 3, 7, 7, 9, 11, 9 >>)),
                           ShiftLeft(s, 6)),
                       ShiftRight(s, 2)))

\* The seed the fold of the current call starts from: 0 for a generated hash
\* struct, else the caller's seed.
StartSeed == IF hashArgs.struct THEN Zero ELSE hashArgs.seed

\* C20: hash_combine is a left fold in std::size_t arithmetic.  While it
\* runs, the seed is the fold of the values consumed so far; when it has
\* returned, the seed is the fold of all values in order, from the caller's
\* seed or, for a generated hash struct, from 0; with no values the seed is
\* unchanged.  Sums and shifts wrap at the width of std::size_t:
\* hash_combine(0xffffffffffffffff, 0xffffffffffffffff, 1, 0) is
\* 0xb40009cb4864e67a and the hash struct of two zero fields gives
\* 0x28cd94bfde.
C20_HashCombineLeftFold ==
    /\ hashPc = "combine" =>
          ioSeed = LeftFold(StartSeed, hashArgs.values,
                            Len(hashArgs.values) - Len(inValues))
    /\ hashPc = "done" =>
          /\ ioSeed = LeftFold(StartSeed, hashArgs.values, Len(hashArgs.values))
          /\ hashArgs.values = << >> => ioSeed = StartSeed
          /\ (~hashArgs.struct /\ hashArgs.seed = AllOnes
                /\ hashArgs.values = << AllOnes, One, Zero >>)
             => ioSeed = Hex(<< 11, 4, 0, 0, 0, 9, 12, 11, 4, 8, 6, 4, 14, 6, 7, 10 >>)
          /\ (hashArgs.struct /\ hashArgs.values = << Zero, Zero >>)
             => ioSeed = Hex(<< 2, 8, 12, 13, 9, 4, 11, 15, 13, 14 >>)

\* hash_combine has returned from a call with three values on the seed
\* 0xffffffffffffffff, whose sums and left shifts overflow the type.
C20_Witness ==
    /\ hashPc = "done"
    /\ ~hashArgs.struct
    /\ hashArgs.seed = AllOnes
    /\ hashArgs.values = << AllOnes, One, Zero >>
    /\ ioSeed # AllOnes

====
